---- MODULE Spec2Model ----
(***************************************************************************)
(* Model of the BRUH image codec of src/main.rs: the header record and its *)
(* raw byte image (BruhHeader, bytes, from_raw), the encoder               *)
(* (image_to_bruh) stepping through its file-system calls, and the decoder *)
(* (get_bruh_image_data).                                                  *)
(*                                                                         *)
(* Three specifications:                                                   *)
(*   Spec       one image_to_bruh call against a file system, with         *)
(*              get_bruh_image_data calls once it has returned;            *)
(*   SpecCodec  the decoder applied to buffers drawn from a bounded set;   *)
(*   SpecHeader BruhHeader::bytes and from_raw applied to headers whose    *)
(*              fields are drawn from a bounded set.                       *)
(*                                                                         *)
(* A u32 is kept as two 16-bit halves [hi, lo] so that all 32 bits are     *)
(* representable in the checker's integers.                                *)
(***************************************************************************)
EXTENDS Integers, Sequences, FiniteSets, TLC

VARIABLES
    fs,          \* the file system: path -> bytes, for the files that exist
    fs0,         \* the file system before image_to_bruh was called
    pc,          \* position of the program: idle, or inside image_to_bruh
    path,        \* image_to_bruh: the argument
    img,         \* image_to_bruh: the decoded source image
    header,      \* image_to_bruh: the BruhHeader built from img
    data,        \* image_to_bruh: the Vec<u8> of pixel bytes
    bruh_path,   \* image_to_bruh: the destination path
    encResult,   \* what image_to_bruh returned
    decPath,     \* get_bruh_image_data: the argument of the last call
    decSrc,      \* what the last decode read: "file", "buffer" or "null"
    decResult,   \* what the last decode (or from_raw call) ended in
    buf,         \* SpecCodec: the buffer handed to the decoder
    hdrIn,       \* SpecHeader: the header handed to BruhHeader::bytes
    hdrBytes     \* SpecHeader: what BruhHeader::bytes returned

vars == <<fs, fs0, pc, path, img, header, data, bruh_path, encResult,
          decPath, decSrc, decResult, buf, hdrIn, hdrBytes>>

encVars == <<pc, path, img, header, data, bruh_path, encResult>>
decVars == <<decPath, decSrc, decResult>>
codecVars == <<buf, hdrIn, hdrBytes>>

(***************************************************************************)
(* Bounds of the model.                                                    *)
(***************************************************************************)
MaxW == 2
MaxH == 2
MaxTail == 4

(***************************************************************************)
(* 32-bit unsigned integers and their native (little-endian) byte image.   *)
(***************************************************************************)
U32(n) == [hi |-> n \div 65536, lo |-> n % 65536]

\* 'B' as u32 | ('R' as u32) << 8 | ('U' as u32) << 16 | ('H' as u32) << 24
BRUH_MAGIC_NUMBER == [hi |-> 85 + 72 * 256, lo |-> 66 + 82 * 256]

\* size_of::<BruhHeader>(): three u32 fields, repr(C), no padding
BRUH_HEADER_SIZE == 12

\* A buggy byte image: most significant byte first.
U32Bytes_BigEndian(v) ==
    << v.hi \div 256, v.hi % 256, v.lo \div 256, v.lo % 256 >>

\* The four bytes of a u32 in memory. The build only passes its compile-time
\* assertion (assert_bruh_magic_num) where byte 0 is the least significant.
U32Bytes(v) ==
    << v.lo % 256, v.lo \div 256, v.hi % 256, v.hi \div 256 >>

\* The u32 read from four bytes of memory.
BytesU32(b) ==
    [hi |-> b[3] + 256 * b[4], lo |-> b[1] + 256 * b[2]]

\* impl From<&DynamicImage> for BruhHeader
HeaderFrom(image) ==
    [magic |-> BRUH_MAGIC_NUMBER,
     width |-> U32(image.width),
     height |-> U32(image.height)]

\* A buggy layout: height before width.
HeaderBytes_HeightFirst(h) ==
    U32Bytes(h.magic) \o U32Bytes(h.height) \o U32Bytes(h.width)

\* BruhHeader::bytes: the record transmuted to [u8; BRUH_HEADER_SIZE]
HeaderBytes(h) ==
    U32Bytes(h.magic) \o U32Bytes(h.width) \o U32Bytes(h.height)

\* ptr::read(ptr as *const BruhHeader) on BRUH_HEADER_SIZE bytes of memory
ReadHeader(mem) ==
    [magic |-> BytesU32(SubSeq(mem, 1, 4)),
     width |-> BytesU32(SubSeq(mem, 5, 8)),
     height |-> BytesU32(SubSeq(mem, 9, 12))]

(***************************************************************************)
(* Results. status: "none" (no call yet), "Ok", "Err" (returned to the     *)
(* caller), "Panic" (a Rust panic), "Abort" (the process killed by a       *)
(* memory fault).                                                          *)
(***************************************************************************)
NoResult ==
    [status |-> "none", err |-> "", width |-> U32(0), height |-> U32(0),
     data |-> <<>>]

Ok(w, h, d) ==
    [status |-> "Ok", err |-> "", width |-> w, height |-> h, data |-> d]

Err(e) == [NoResult EXCEPT !.status = "Err", !.err = e]

Panicked == [NoResult EXCEPT !.status = "Panic"]

Aborted == [NoResult EXCEPT !.status = "Abort"]

\* The errors of the code, by the name the specification gives them.
NullPointer == "InvalidInput"       \* BruhError("Null pointer to from_raw provided")
BadMagic == "FormatMismatch"        \* BruhError("File was not in BRUH format. ...")
ImageError == "SourceDecodeError"   \* image::open failed
IoError == "IOFailure"              \* std::io::Error
PathNotUnicode == "PathNotUnicode"  \* "Path did not contain valid unicode"

(***************************************************************************)
(* BruhHeader::from_raw and get_bruh_image_data.                           *)
(***************************************************************************)
NullPtr == [null |-> TRUE, mem |-> <<>>]

\* A non-null pointer, with the BRUH_HEADER_SIZE bytes a read through it yields.
Ptr(mem) == [null |-> FALSE, mem |-> mem]

FromRawOk(h) == [ok |-> TRUE, err |-> "", header |-> h]

FromRawErr(e) ==
    [ok |-> FALSE, err |-> e,
     header |-> [magic |-> U32(0), width |-> U32(0), height |-> U32(0)]]

\* unsafe fn from_raw(ptr: *const u8)
FromRaw(ptr) ==
    IF ptr.null
    THEN FromRawErr(NullPointer)
    ELSE LET h == ReadHeader(ptr.mem)
         IN  IF h.magic # BRUH_MAGIC_NUMBER
             THEN FromRawErr(BadMagic)
             ELSE FromRawOk(h)

\* What the memory after the end of a Vec's allocation may hold when it is
\* read without faulting: zeroes, 0xFF fill, or a header left by an earlier
\* allocation.
StaleMemory ==
    { [i \in 1..BRUH_HEADER_SIZE |-> 0],
      [i \in 1..BRUH_HEADER_SIZE |-> 255],
      HeaderBytes([magic |-> BRUH_MAGIC_NUMBER, width |-> U32(1),
                   height |-> U32(1)]) }

\* The BRUH_HEADER_SIZE bytes ptr::read can yield from contents.as_ptr(): the
\* first bytes of the Vec when it holds that many; otherwise the read runs
\* past the end of the allocation (undefined behaviour) and the missing bytes
\* are whatever memory holds there.
HeaderReads(contents) ==
    IF Len(contents) >= BRUH_HEADER_SIZE
    THEN { SubSeq(contents, 1, BRUH_HEADER_SIZE) }
    ELSE { contents \o SubSeq(s, Len(contents) + 1, BRUH_HEADER_SIZE) :
             s \in StaleMemory }

\* Whether the out-of-bounds read may fault instead of yielding bytes.
ReadMayFault(contents) == Len(contents) < BRUH_HEADER_SIZE

\* Vec::drain(0..n): panics when n exceeds the length.
DrainPanics(contents, n) == n > Len(contents)

\* A buggy drain that leaves the last header byte in the pixel data.
Drain_OneShort(contents, n) == SubSeq(contents, n, Len(contents))

Drain(contents, n) == SubSeq(contents, n + 1, Len(contents))

\* get_bruh_image_data after fs::read, given the bytes the header read yields
DecodeWith(contents, mem) ==
    LET r == FromRaw(Ptr(mem))
    IN  IF ~r.ok
        THEN Err(r.err)
        ELSE IF DrainPanics(contents, BRUH_HEADER_SIZE)
             THEN Panicked
             ELSE Ok(r.header.width, r.header.height,
                     Drain(contents, BRUH_HEADER_SIZE))

\* Every way get_bruh_image_data can end on a file holding contents.
GetBruhImageData(contents) ==
    { DecodeWith(contents, mem) : mem \in HeaderReads(contents) }
    \cup (IF ReadMayFault(contents) THEN {Aborted} ELSE {})

(***************************************************************************)
(* Source images and their serialization (the loop over img.pixels()).     *)
(***************************************************************************)
Palette ==
    << <<255, 0, 0, 255>>, <<0, 255, 0, 255>>, <<0, 0, 255, 255>>,
       <<255, 255, 255, 0>> >>

\* Three families of pixel contents: the four-colour cycle, channels that
\* encode the coordinates, and pixels that spell the magic tag.
Patterns == {"cycle", "coords", "magic"}

PixelOf(k, w, x, y) ==
    CASE k = "cycle" -> Palette[((y * w + x) % 4) + 1]
      [] k = "coords" -> <<16 * x + y, 100 + 16 * y + x, 200 + x, 250 - y>>
      [] OTHER -> <<66, 82, 85, 72>>

Image(k, w, h) ==
    [width |-> w, height |-> h,
     pix |-> [xy \in (0..(w - 1)) \X (0..(h - 1)) |->
                 PixelOf(k, w, xy[1], xy[2])]]

Images == { Image(k, w, h) : k \in Patterns, w \in 1..MaxW, h \in 1..MaxH }

NoImage == [width |-> 0, height |-> 0, pix |-> [xy \in {} |-> <<>>]]

\* A buggy push: blue first.
PushPixel_BGRA(d, px) ==
    Append(Append(Append(Append(d, px[3]), px[2]), px[1]), px[4])

\* data.push(pixel.2.0[0]); ... data.push(pixel.2.0[3]);
PushPixel(d, px) ==
    Append(Append(Append(Append(d, px[1]), px[2]), px[3]), px[4])

\* for pixel in img.pixels(): the iterator steps x through a row, then moves
\* to the next row, until y reaches the height.
RECURSIVE PixelLoop(_, _, _, _)
PixelLoop(image, x, y, d) ==
    IF x >= image.width
    THEN PixelLoop(image, 0, y + 1, d)
    ELSE IF y >= image.height
         THEN d
         ELSE PixelLoop(image, x + 1, y, PushPixel(d, image.pix[<<x, y>>]))

Serialize(image) == PixelLoop(image, 0, 0, <<>>)

(***************************************************************************)
(* Paths: sequences of characters. NonUnicode stands for a byte sequence   *)
(* that is no valid unicode.                                               *)
(***************************************************************************)
NonUnicode == "<ff>"

\* The source paths tried: f.p, f, ./f, d.d/f, d/f.p, .f, f.t.p and two
\* paths that are no valid unicode.
SrcPaths ==
    { <<"f", ".", "p">>,
      <<"f">>,
      <<".", "/", "f">>,
      <<"d", ".", "d", "/", "f">>,
      <<"d", "/", "f", ".", "p">>,
      <<".", "f">>,
      <<"f", ".", "t", ".", "p">>,
      <<"f", NonUnicode>>,
      <<NonUnicode, ".", "p">> }

BruhExt == <<".", "b", "r", "u", "h">>

\* path.to_str() is Some
IsUnicode(p) == \A i \in 1..Len(p) : p[i] # NonUnicode

\* str::rfind: the position of the last occurrence, 0 for None
RFind(s, c) ==
    LET hits == { i \in 1..Len(s) : s[i] = c }
    IN  IF hits = {} THEN 0 ELSE CHOOSE i \in hits : \A j \in hits : j <= i

\* match path_str.rfind(".") { None => path_str + ".bruh",
\*                             Some(idx) => path_str[..idx] + ".bruh" }
BruhPath(path_str) ==
    LET idx == RFind(path_str, ".")
    IN  IF idx = 0
        THEN path_str \o BruhExt
        ELSE SubSeq(path_str, 1, idx - 1) \o BruhExt

(***************************************************************************)
(* The file system.                                                        *)
(***************************************************************************)
EmptyFS == [p \in {} |-> <<>>]

Exists(f, p) == p \in DOMAIN f

\* File::create: the file exists afterwards and is empty
Truncated(f, p) == (p :> <<>>) @@ f

\* bytes written at the end of the open file
Appended(f, p, bytes) == [f EXCEPT ![p] = @ \o bytes]

\* Files that may be there before the program runs: something that is not in
\* the format, and a 1x1 image written earlier.
OldContents ==
    { <<79, 76, 68>>,
      HeaderBytes([magic |-> BRUH_MAGIC_NUMBER, width |-> U32(1),
                   height |-> U32(1)]) \o <<9, 9, 9, 9>> }

OldPaths == { <<"f">> \o BruhExt, BruhExt }

InitialFileSystems ==
    {EmptyFS} \cup { (p :> c) @@ EmptyFS : p \in OldPaths, c \in OldContents }

\* A path at which no file exists.
MissingPath == <<"f">>

NoHeader == [magic |-> U32(0), width |-> U32(0), height |-> U32(0)]

(***************************************************************************)
(* image_to_bruh, one action per call into the file system.                *)
(***************************************************************************)
\* What image::open can return: an error, or a decoded image.
OpenOutcomes ==
    {[ok |-> FALSE, image |-> NoImage]}
    \cup { [ok |-> TRUE, image |-> i] : i \in Images }

\* A buggy order: the destination is created before the source is opened.
EncodeBegin_CreateFirst(p, o) ==
    /\ pc = "idle"
    /\ path' = p
    /\ decPath' = decPath /\ decSrc' = decSrc /\ decResult' = decResult
    /\ UNCHANGED <<fs0, codecVars>>
    /\ IF ~IsUnicode(p)
       THEN /\ pc' = "returned"
            /\ encResult' = Err(PathNotUnicode)
            /\ UNCHANGED <<fs, img, header, data, bruh_path>>
       ELSE /\ bruh_path' = BruhPath(p)
            /\ fs' = Truncated(fs, BruhPath(p))
            /\ IF ~o.ok
               THEN /\ pc' = "returned"
                    /\ encResult' = Err(ImageError)
                    /\ UNCHANGED <<img, header, data>>
               ELSE /\ img' = o.image
                    /\ header' = HeaderFrom(o.image)
                    /\ data' = Serialize(o.image)
                    /\ pc' = "write_header"
                    /\ UNCHANGED encResult

\* image::open(path)?, the header, the pixel loop, path.to_str() and the
\* destination path: everything before the first write to the file system.
EncodeBegin(p, o) ==
    /\ pc = "idle"
    /\ path' = p
    /\ UNCHANGED <<fs, fs0, decVars, codecVars>>
    /\ IF ~o.ok
       THEN /\ pc' = "returned"
            /\ encResult' = Err(ImageError)
            /\ UNCHANGED <<img, header, data, bruh_path>>
       ELSE /\ img' = o.image
            /\ header' = HeaderFrom(o.image)
            /\ data' = Serialize(o.image)
            /\ IF ~IsUnicode(p)
               THEN /\ pc' = "returned"
                    /\ encResult' = Err(PathNotUnicode)
                    /\ UNCHANGED bruh_path
               ELSE /\ bruh_path' = BruhPath(p)
                    /\ pc' = "create"
                    /\ UNCHANGED encResult

\* let mut file = File::create(bruh_path)?;
EncodeCreate(ok) ==
    /\ pc = "create"
    /\ IF ok
       THEN /\ fs' = Truncated(fs, bruh_path)
            /\ pc' = "write_header"
            /\ UNCHANGED encResult
       ELSE /\ pc' = "returned"
            /\ encResult' = Err(IoError)
            /\ UNCHANGED fs
    /\ UNCHANGED <<fs0, path, img, header, data, bruh_path, decVars, codecVars>>

\* file.write_all(bytes)?: all of bytes reach the file, or the call fails
\* after a proper prefix of them did (written < Len(bytes)).
WriteAll(bytes, written, next) ==
    /\ written \in 0..Len(bytes)
    /\ fs' = Appended(fs, bruh_path, SubSeq(bytes, 1, written))
    /\ IF written = Len(bytes)
       THEN pc' = next /\ UNCHANGED encResult
       ELSE pc' = "returned" /\ encResult' = Err(IoError)
    /\ UNCHANGED <<fs0, path, img, header, data, bruh_path, decVars, codecVars>>

\* file.write_all(header.bytes())?;
EncodeWriteHeader(written) ==
    /\ pc = "write_header"
    /\ WriteAll(HeaderBytes(header), written, "write_data")

\* file.write_all(&data)?;
EncodeWriteData(written) ==
    /\ pc = "write_data"
    /\ WriteAll(data, written, "flush")

\* file.flush()?; Ok(())   (flush of a File does nothing and returns Ok)
EncodeFlush ==
    /\ pc = "flush"
    /\ pc' = "returned"
    /\ encResult' = Ok(header.width, header.height, <<>>)
    /\ UNCHANGED <<fs, fs0, path, img, header, data, bruh_path, decVars,
                   codecVars>>

(***************************************************************************)
(* get_bruh_image_data on a file.                                          *)
(***************************************************************************)
\* fs::read(path)? fails when the file cannot be read; then from_raw and
\* drain. The viewer is run once the converter has returned.
Decode(p) ==
    /\ pc = "returned"
    /\ decPath' = p
    /\ decSrc' = "file"
    /\ IF Exists(fs, p)
       THEN decResult' \in GetBruhImageData(fs[p])
       ELSE decResult' = Err(IoError)
    /\ UNCHANGED <<fs, fs0, encVars, codecVars>>

Init ==
    /\ fs0 \in InitialFileSystems
    /\ fs = fs0
    /\ pc = "idle"
    /\ path = <<>>
    /\ img = NoImage
    /\ header = NoHeader
    /\ data = <<>>
    /\ bruh_path = <<>>
    /\ encResult = NoResult
    /\ decPath = <<>>
    /\ decSrc = "none"
    /\ decResult = NoResult
    /\ buf = <<>>
    /\ hdrIn = NoHeader
    /\ hdrBytes = <<>>

Next ==
    \/ \E p \in SrcPaths, o \in OpenOutcomes : EncodeBegin(p, o)
    \/ \E ok \in BOOLEAN : EncodeCreate(ok)
    \/ \E n \in 0..BRUH_HEADER_SIZE : EncodeWriteHeader(n)
    \/ \E n \in 0..Len(data) : EncodeWriteData(n)
    \/ EncodeFlush
    \/ \E p \in DOMAIN fs \cup {MissingPath} : Decode(p)

Spec == Init /\ [][Next]_vars

(***************************************************************************)
(* The codec's pure functions on bounded inputs.                           *)
(***************************************************************************)
\* First four bytes tried: the tag, the tag reversed, the tag with its last
\* one or two bytes wrong, with its first byte wrong, and zeroes.
MagicCandidates ==
    { <<66, 82, 85, 72>>, <<72, 85, 82, 66>>, <<66, 82, 85, 0>>,
      <<66, 82, 0, 0>>, <<0, 82, 85, 72>>, <<0, 0, 0, 0>> }

\* Bytes tried for the width and height fields: 0, 1, 2, 256 and 2^32 - 1.
FieldBytes ==
    { <<0, 0, 0, 0>>, <<1, 0, 0, 0>>, <<2, 0, 0, 0>>, <<0, 1, 0, 0>>,
      <<255, 255, 255, 255>> }

TailBytes == [i \in 1..MaxTail |-> 10 * i]

\* Every prefix, the empty one included, of tag, width, height and tail.
Buffers ==
    { SubSeq(m \o w \o h \o TailBytes, 1, n) :
        m \in MagicCandidates, w \in FieldBytes, h \in FieldBytes,
        n \in 0..(BRUH_HEADER_SIZE + MaxTail) }

\* Widths and heights tried: 0, 1, 256, 65535, 65536, 2^31 and 2^32 - 1.
DimSamples ==
    { [hi |-> 0, lo |-> 0], [hi |-> 0, lo |-> 1], [hi |-> 0, lo |-> 256],
      [hi |-> 0, lo |-> 65535], [hi |-> 1, lo |-> 0],
      [hi |-> 32768, lo |-> 0], [hi |-> 65535, lo |-> 65535] }

\* header.bytes() on the header held in hdrIn
HeaderEncode ==
    /\ pc = "header"
    /\ hdrBytes' = HeaderBytes(hdrIn)
    /\ UNCHANGED <<fs, fs0, encVars, decVars, buf, hdrIn>>

\* from_raw on a pointer to the bytes header.bytes() returned
HeaderParse ==
    /\ pc = "header"
    /\ Len(hdrBytes) = BRUH_HEADER_SIZE
    /\ decSrc' = "header"
    /\ decResult' = (LET r == FromRaw(Ptr(hdrBytes))
                     IN  IF r.ok
                         THEN Ok(r.header.width, r.header.height, <<>>)
                         ELSE Err(r.err))
    /\ UNCHANGED <<fs, fs0, encVars, decPath, codecVars>>

\* get_bruh_image_data once fs::read has returned buf
DecodeBuffer ==
    /\ pc = "codec"
    /\ decSrc' = "buffer"
    /\ decResult' \in GetBruhImageData(buf)
    /\ UNCHANGED <<fs, fs0, encVars, decPath, codecVars>>

\* from_raw called with a null pointer
FromRawNull ==
    /\ pc = "codec"
    /\ decSrc' = "null"
    /\ decResult' = (LET r == FromRaw(NullPtr)
                     IN  IF r.ok
                         THEN Ok(r.header.width, r.header.height, <<>>)
                         ELSE Err(r.err))
    /\ UNCHANGED <<fs, fs0, encVars, decPath, codecVars>>

InitCodec ==
    /\ fs0 = EmptyFS
    /\ fs = EmptyFS
    /\ pc = "codec"
    /\ path = <<>>
    /\ img = NoImage
    /\ header = NoHeader
    /\ data = <<>>
    /\ bruh_path = <<>>
    /\ encResult = NoResult
    /\ decPath = <<>>
    /\ decSrc = "none"
    /\ decResult = NoResult
    /\ buf \in Buffers
    /\ hdrIn = NoHeader
    /\ hdrBytes = <<>>

NextCodec ==
    \/ DecodeBuffer
    \/ FromRawNull

SpecCodec == InitCodec /\ [][NextCodec]_vars

InitHeader ==
    /\ fs0 = EmptyFS
    /\ fs = EmptyFS
    /\ pc = "header"
    /\ path = <<>>
    /\ img = NoImage
    /\ header = NoHeader
    /\ data = <<>>
    /\ bruh_path = <<>>
    /\ encResult = NoResult
    /\ decPath = <<>>
    /\ decSrc = "none"
    /\ decResult = NoResult
    /\ buf = <<>>
    /\ hdrIn \in [magic : {BRUH_MAGIC_NUMBER}, width : DimSamples,
                  height : DimSamples]
    /\ hdrBytes = <<>>

NextHeader ==
    \/ HeaderEncode
    \/ HeaderParse

SpecHeader == InitHeader /\ [][NextHeader]_vars

(***************************************************************************)
(* Properties.                                                             *)
(***************************************************************************)
MagicTag == <<66, 82, 85, 72>>   \* 'B', 'R', 'U', 'H'

\* The value of the two bytes of b at positions i and i + 1, low byte first.
Half(b, i) == b[i] + 256 * b[i + 1]

EncodeSucceeded == pc = "returned" /\ encResult.status = "Ok"

\* C1: when image_to_bruh has succeeded on an image of width > 0 and
\* height > 0 and get_bruh_image_data has then read the file it wrote, the
\* decoder returns Ok with the image's width and height and a pixel buffer
\* equal, byte for byte, to the encoder's own buffer.
C1_RoundTrip ==
    (/\ EncodeSucceeded
     /\ img.width > 0 /\ img.height > 0
     /\ decSrc = "file" /\ decPath = bruh_path)
    => /\ decResult.status = "Ok"
       /\ decResult.width.hi = 0 /\ decResult.width.lo = img.width
       /\ decResult.height.hi = 0 /\ decResult.height.lo = img.height
       /\ decResult.data = data

C1_Witness ==
    /\ EncodeSucceeded
    /\ img.width = 2 /\ img.height = 2
    /\ decSrc = "file" /\ decPath = bruh_path
    /\ decResult.status = "Ok"
    /\ Len(decResult.data) = 16

\* C2: decoding a buffer shorter than 12 bytes, the empty one included, or a
\* null source, ends in the InvalidInput error and in nothing else.
C2_ShortBufferRejected ==
    /\ (decSrc = "buffer" /\ Len(buf) < 12)
         => (decResult.status = "Err" /\ decResult.err = "InvalidInput")
    /\ (decSrc = "null")
         => (decResult.status = "Err" /\ decResult.err = "InvalidInput")

\* C3: decoding a buffer whose first 4 bytes are not 'B','R','U','H' fails
\* with FormatMismatch whatever follows them, and a buffer of at least 12
\* bytes that starts with the tag is never rejected with FormatMismatch.
C3_MagicRejection ==
    (decSrc = "buffer" /\ Len(buf) >= 4)
    => /\ (SubSeq(buf, 1, 4) # MagicTag)
            => (decResult.status = "Err" /\ decResult.err = "FormatMismatch")
       /\ (Len(buf) >= 12 /\ SubSeq(buf, 1, 4) = MagicTag)
            => ~(decResult.status = "Err" /\ decResult.err = "FormatMismatch")

\* C3 restricted to the buffers that hold a whole header: of the buffers of
\* at least 12 bytes, exactly those that do not start with the tag are
\* rejected with FormatMismatch.
C3_MagicRejectionOfWholeHeaders ==
    (decSrc = "buffer" /\ Len(buf) >= 12)
    => ((SubSeq(buf, 1, 4) # MagicTag)
          <=> (decResult.status = "Err" /\ decResult.err = "FormatMismatch"))

\* C4: BruhHeader::bytes yields exactly 12 bytes, each in 0..255: the tag
\* 'B','R','U','H', then the width and then the height, each as a 4-byte
\* unsigned integer; the operation is always enabled (it cannot fail).
C4_HeaderLayout ==
    /\ pc = "header" => ENABLED HeaderEncode
    /\ (hdrBytes # <<>>)
         => /\ Len(hdrBytes) = 12
            /\ \A i \in 1..12 : hdrBytes[i] \in 0..255
            /\ SubSeq(hdrBytes, 1, 4) = MagicTag
            /\ Half(hdrBytes, 5) = hdrIn.width.lo
            /\ Half(hdrBytes, 7) = hdrIn.width.hi
            /\ Half(hdrBytes, 9) = hdrIn.height.lo
            /\ Half(hdrBytes, 11) = hdrIn.height.hi

C4_Witness ==
    /\ hdrBytes # <<>>
    /\ hdrIn.width = [hi |-> 65535, lo |-> 65535]
    /\ hdrIn.height = [hi |-> 0, lo |-> 256]

\* C5: once the pixel loop has run, the encoder's buffer has length
\* width * height * 4 and the bytes at offset (y * width + x) * 4 .. + 3 are
\* the R, G, B, A channels of pixel (x, y); in the file a successful encode
\* wrote, the same bytes sit 12 bytes further on and nothing follows them.
C5_PixelSerialization ==
    (img # NoImage)
    => /\ Len(data) = img.width * img.height * 4
       /\ \A x \in 0..(img.width - 1), y \in 0..(img.height - 1), c \in 1..4 :
            data[(y * img.width + x) * 4 + c] = img.pix[<<x, y>>][c]
       /\ EncodeSucceeded
            => /\ Exists(fs, bruh_path)
               /\ Len(fs[bruh_path]) = 12 + img.width * img.height * 4
               /\ \A x \in 0..(img.width - 1), y \in 0..(img.height - 1),
                     c \in 1..4 :
                    fs[bruh_path][12 + (y * img.width + x) * 4 + c]
                      = img.pix[<<x, y>>][c]

C5_Witness ==
    /\ EncodeSucceeded
    /\ img.width = 2 /\ img.height = 2
    /\ img.pix[<<1, 0>>] # img.pix[<<0, 1>>]
    /\ img.pix[<<0, 1>>][1] # img.pix[<<0, 1>>][3]

\* The destination the specification asks for: the extension of the file
\* name (what follows the last '/') replaced by .bruh, or .bruh appended to
\* the whole path when the file name has no '.'.
ExpectedBruhPath(p) ==
    LET slash == RFind(p, "/")
        name == SubSeq(p, slash + 1, Len(p))
        dot == RFind(name, ".")
    IN  IF dot = 0
        THEN p \o BruhExt
        ELSE SubSeq(p, 1, slash + dot - 1) \o BruhExt

\* C6: the destination is the source path with the file name's extension
\* replaced by .bruh, or with .bruh appended when the file name has none; no
\* directory component is altered or cut off.
C6_ExtensionHandling ==
    (pc \notin {"idle"} /\ bruh_path # <<>>)
    => bruh_path = ExpectedBruhPath(path)

\* C7: image_to_bruh and get_bruh_image_data return to their caller, with
\* success or with an error; neither panics or aborts the process.
C7_NoAbort ==
    /\ encResult.status \in {"none", "Ok", "Err"}
    /\ decResult.status \in {"none", "Ok", "Err"}

\* C8: in every state during or after an encode the destination is as it
\* was before the encode, or holds the complete header followed by all the
\* pixel bytes.
C8_NoPartialFile ==
    (pc # "idle" /\ bruh_path # <<>>)
    => \/ (~Exists(fs0, bruh_path) /\ ~Exists(fs, bruh_path))
       \/ (/\ Exists(fs0, bruh_path) /\ Exists(fs, bruh_path)
           /\ fs[bruh_path] = fs0[bruh_path])
       \/ (/\ Exists(fs, bruh_path)
           /\ fs[bruh_path] = HeaderBytes(header) \o data)

\* C9: decoding a buffer of at least 12 bytes that starts with the tag
\* succeeds whatever bytes 4-11 hold and however many bytes follow; it
\* returns the width and height stored in bytes 4-11 and, as pixel buffer,
\* the bytes from offset 12 to the end, in order.
C9_MagicSoleValidation ==
    (decSrc = "buffer" /\ Len(buf) >= 12 /\ SubSeq(buf, 1, 4) = MagicTag)
    => /\ decResult.status = "Ok"
       /\ decResult.width.lo = Half(buf, 5)
       /\ decResult.width.hi = Half(buf, 7)
       /\ decResult.height.lo = Half(buf, 9)
       /\ decResult.height.hi = Half(buf, 11)
       /\ Len(decResult.data) = Len(buf) - 12
       /\ \A i \in 1..(Len(buf) - 12) : decResult.data[i] = buf[12 + i]

\* A zero width, and 3 bytes of pixel data where 0 (or any multiple of 4)
\* would be expected.
C9_Witness ==
    /\ decSrc = "buffer"
    /\ Len(buf) = 15
    /\ SubSeq(buf, 1, 4) = MagicTag
    /\ SubSeq(buf, 5, 8) = <<0, 0, 0, 0>>
    /\ decResult.status = "Ok"

\* C10: when image_to_bruh fails because the source could not be opened or
\* decoded, or because the path is no valid unicode, the file system is as
\* it was before the call: no destination was created and an existing one
\* keeps its contents.
C10_EarlyFailureLeavesDestination ==
    (encResult.status = "Err"
       /\ encResult.err \in {"SourceDecodeError", "PathNotUnicode"})
    => fs = fs0

\* The source could not be decoded and a file exists where the destination
\* would have been.
C10_Witness ==
    /\ encResult.status = "Err"
    /\ encResult.err = "SourceDecodeError"
    /\ IsUnicode(path)
    /\ Exists(fs, BruhPath(path))
    /\ fs[BruhPath(path)] = <<79, 76, 68>>

====
